---- MODULE Spec2Model ----
(***************************************************************************)
(* Model of the property (bound-accessor) framework of                     *)
(* source/utilities/Properties.h together with the runtime_assert macro of *)
(* source/utilities/Assertions.h.                                          *)
(*                                                                         *)
(* One world holds two accessor instances "a" and "b" of one property      *)
(* class (chosen at construction), two candidate owner objects and, for    *)
(* the delegating classes, the data field of each owner that the           *)
(* registered getter and setter read and write.  Every public operation of *)
(* a property class is one action; its outcome (normal return, or the      *)
(* exception thrown by runtime_assert) is recorded in "last".              *)
(*                                                                         *)
(* Two further kinds of world exist: one whose two accessors are           *)
(* ReadonlyPointerProperty instances over externally owned storage, and    *)
(* one that holds a single Assignment carrier, the variable it was built   *)
(* from and a target slot.                                                 *)
(***************************************************************************)
EXTENDS Integers, Sequences, FiniteSets, TLC

\* Largest value of the underlying arithmetic type that is enumerated.
MaxValue == 2

Values == 0..MaxValue

\* Marker for "no value" (void return, no argument).
NoValue == 0 - 1

\* The enclosing objects an accessor can be bound to, and the null pointer.
Owners == {"o1", "o2"}
NULL == "nullptr"

Accessors == {"a", "b"}

StoredClasses == {"ReadonlyProperty", "WriteonlyProperty", "Property", "SharedProperty"}
ByValueClasses == {"ReadonlyByValueProperty", "WriteonlyByValueProperty", "ByValueProperty"}
ByReferenceClasses ==
    {"ReadonlyByReferenceProperty", "WriteonlyByReferenceProperty", "ByReferenceProperty"}
DelegatingClasses == ByValueClasses \cup ByReferenceClasses
Classes == StoredClasses \cup DelegatingClasses

\* The property class with a raw pointer: it has no PropertyOwner.
PointerClasses == {"ReadonlyPointerProperty"}

\* The library functions outside Properties.h that a world can exercise.
Functions == {"runtime_assert", "project", "ends_with", "Optional", "Potential",
              "parse_groups"}

\* What a world is built around: a property class, the Assignment carrier
\* or one of the library functions.
Scenarios == Classes \cup PointerClasses \cup {"Assignment"} \cup Functions

\* The null value of ReadonlyPointerProperty::pointer and of a shared handle.
NullPointer == 0

\* Addresses of externally owned storage (and of shared objects).
Locations == Values \ {NullPointer}

\* Classes deriving from the Readable tag.
Readable(c) ==
    c \in {"ReadonlyProperty", "Property", "SharedProperty",
           "ReadonlyByValueProperty", "ByValueProperty",
           "ReadonlyByReferenceProperty", "ByReferenceProperty",
           "ReadonlyPointerProperty"}

\* Classes deriving from the Writable tag.
Writable(c) ==
    c \in {"WriteonlyProperty", "Property", "SharedProperty",
           "WriteonlyByValueProperty", "ByValueProperty",
           "WriteonlyByReferenceProperty", "ByReferenceProperty"}

ReadWrite(c) == Readable(c) /\ Writable(c)

\* The read forms a class defines: get(), operator()() and the conversion.
ReadForms(c) == IF Readable(c) /\ c \in Classes THEN {"get", "call", "conv"} ELSE {}

\* The read forms of ReadonlyPointerProperty: get(), the conversion to
\* Type*, operator->() and operator*().
PointerReadForms == {"get", "conv", "arrow", "deref"}

\* The write forms a class defines: set(v), operator=(v) and operator()(v).
WriteForms(c) == IF Writable(c) THEN {"set", "assign", "call"} ELSE {}

ArithmeticOps == {"+", "-", "*", "/"}

\* A variant of the table in which the by-value write-only class also has
\* the manipulation operators.
CompoundOpsOnEveryWritable(c) ==
    IF c \in {"WriteonlyProperty", "Property", "ByValueProperty", "ByReferenceProperty",
              "WriteonlyByValueProperty"}
    THEN ArithmeticOps ELSE {}

\* The classes that define operator+=, -=, *=, /= ("manipulation").
\* SharedProperty inherits them from Property<shared<Type>, Owner>, but they
\* cannot be instantiated for a shared pointer value.
CompoundOps(c) ==
    IF c \in {"WriteonlyProperty", "Property", "ByValueProperty", "ByReferenceProperty"}
    THEN ArithmeticOps ELSE {}

VARIABLES
    cls,      \* the property class of the two accessors
    owner,    \* owner[a]: PropertyOwner::pointer of accessor a
    value,    \* value[a]: DataProperty::value of accessor a (stored classes)
    field,    \* field[o]: the data of owner o behind its getter and setter
    last,     \* the operation performed last and its outcome
    alias,    \* alias[a]: ReadonlyPointerProperty::pointer of accessor a
    storage,  \* storage[l]: the object at address l
    box,      \* the Assignment carrier, its source variable and its target
    run       \* the library function called, its arguments and outcome

vars == <<cls, owner, value, field, last, alias, storage, box, run>>

\* The state outside the owner-bound property classes.
others == <<alias, storage, box, run>>

----------------------------------------------------------------------------
\* Outcome of one call: the accessor's value slot and the owners' fields
\* after it, how it ended ("ok", "assert" = runtime_error thrown by
\* runtime_assert, "undefined" = a null owner pointer was dereferenced),
\* what it returned, and the owner methods it called, in order.
Outcome(x, f, st, rk, r, ro, cs) ==
    [value |-> x, field |-> f, status |-> st, retKind |-> rk,
     ret |-> r, retOwner |-> ro, calls |-> cs]

Thrown(x, f, cs) == Outcome(x, f, "assert", "none", NoValue, NULL, cs)

Undefined(x, f, cs) == Outcome(x, f, "undefined", "none", NoValue, NULL, cs)

Call(m, o, v) == [method |-> m, on |-> o, arg |-> v]

\* runtime_assert compiled with _RUNTIME_ASSERTIONS_DISABLED: never throws.
RuntimeAssertDisabled(condition) == TRUE

\* runtime_assert: TRUE when execution continues, FALSE when it throws.
RuntimeAssert(condition) == condition

\* A bind that leaves the pointer as it was.
OwnerAssignIgnored(pointer, o) == [pointer |-> pointer, status |-> "ok"]

\* PropertyOwner::operator=(Owner*): pointer = owner.
OwnerAssign(pointer, o) == [pointer |-> o, status |-> "ok"]

\* PropertyOwner conversion to Owner* / Owner&.
OwnerConvert(pointer) ==
    IF RuntimeAssert(pointer # NULL)
    THEN [status |-> "ok", target |-> pointer]
    ELSE [status |-> "assert", target |-> NULL]

\* x <op> v on the underlying arithmetic type.
Apply(op, x, v) ==
    CASE op = "+" -> x + v
      [] op = "-" -> x - v
      [] op = "*" -> x * v
      [] op = "/" -> x \div v

\* The owner's registered getter and setter: they read and write one field.
Getter(f, o) == f[o]

Setter(f, o, v) == [f EXCEPT ![o] = v]

\* Assignment::Assignment(value): the closure captures a reference to the
\* constructor's argument ([&value]), not its value; r names the variable.
AssignmentMake(r) == [ref |-> r]

\* A deposit that leaves the target as it was.
AssignmentToNothing(carrier, store, target) == target

\* Assignment::to(target): target = value (the referenced variable as it is
\* now, in the memory "store"); the result is the target's new content.
AssignmentTo(carrier, store, target) == store[carrier.ref]

\* carrier.to(target) for a carrier whose referenced variable is alive or
\* not: assign_to(target); return target.
CarrierDeposit(carrier, alive, store, target, u) ==
    IF alive
    THEN LET t == AssignmentTo(carrier, store, target) IN
         [target |-> t, status |-> "ok", retKind |-> "value", ret |-> t]
    ELSE IF u = NoValue
    THEN [target |-> target, status |-> "undefined", retKind |-> "none", ret |-> NoValue]
    ELSE [target |-> u, status |-> "ok", retKind |-> "value", ret |-> u]

\* The by-reference setter deposits its carrier into the owner's field.
SetterByReference(f, o, carrier, store) ==
    [f EXCEPT ![o] = AssignmentTo(carrier, store, f[o])]

----------------------------------------------------------------------------
\* Properties with value storage (ReadonlyProperty, WriteonlyProperty,
\* Property, SharedProperty).  p is the owner pointer, x the value slot,
\* f the owners' fields.

\* ReadonlyProperty::get(), operator()() and the conversion: return value.
StoredGet(p, x, f) == Outcome(x, f, "ok", "value", x, NULL, <<>>)

\* A set that is refused without an owner, as the chaining form is.
StoredSetNeedingOwner(p, x, f, v) ==
    IF p = NULL THEN Thrown(x, f, <<>>)
    ELSE Outcome(v, f, "ok", "void", NoValue, NULL, <<>>)

\* A set that also forwards the value to the owner's setter when bound.
StoredSetThroughOwner(p, x, f, v) ==
    IF p = NULL THEN Outcome(v, f, "ok", "void", NoValue, NULL, <<>>)
    ELSE Outcome(v, Setter(f, p, v), "ok", "void", NoValue, NULL, <<Call("set", p, v)>>)

\* WriteonlyProperty::set(v): this->value = value.
StoredSet(p, x, f, v) == Outcome(v, f, "ok", "void", NoValue, NULL, <<>>)

\* A chaining form that hands out the raw pointer without the conversion.
StoredCallUnchecked(p, x, f, v) == Outcome(v, f, "ok", "owner", NoValue, p, <<>>)

\* A chaining form that converts the owner before it stores the value.
StoredCallAllOrNothing(p, x, f, v) ==
    LET c == OwnerConvert(p) IN
    IF c.status # "ok" THEN Thrown(x, f, <<>>)
    ELSE IF c.target = NULL THEN Undefined(x, f, <<>>)
    ELSE Outcome(v, f, "ok", "owner", NoValue, c.target, <<>>)

\* WriteonlyProperty::operator()(v): this->value = value; return owner.
StoredCall(p, x, f, v) ==
    LET c == OwnerConvert(p) IN
    IF c.status # "ok" THEN Thrown(v, f, <<>>)
    ELSE IF c.target = NULL THEN Undefined(v, f, <<>>)
    ELSE Outcome(v, f, "ok", "owner", NoValue, c.target, <<>>)

\* WriteonlyProperty::operator=(v): void.
WriteonlyAssign(p, x, f, v) == Outcome(v, f, "ok", "void", NoValue, NULL, <<>>)

\* An assignment that returns the stored value without storing the new one.
PropertyAssignDropped(p, x, f, v) == Outcome(x, f, "ok", "value", x, NULL, <<>>)

\* An assignment that returns nothing, as the write-only one does.
PropertyAssignVoid(p, x, f, v) == Outcome(v, f, "ok", "void", NoValue, NULL, <<>>)

\* Property::operator=(v): return this->value = value.
PropertyAssign(p, x, f, v) == Outcome(v, f, "ok", "value", v, NULL, <<>>)

\* WriteonlyProperty::operator+=, -=, *=, /=: this->value <op>= value; void.
WriteonlyCompound(p, x, f, op, v) ==
    Outcome(Apply(op, x, v), f, "ok", "void", NoValue, NULL, <<>>)

\* A += that returns the value from before the update.
PropertyCompoundStale(p, x, f, op, v) ==
    Outcome(Apply(op, x, v), f, "ok", "value", x, NULL, <<>>)

\* Property::operator+=, -=, *=, /=: return this->value <op>= value.
PropertyCompound(p, x, f, op, v) ==
    Outcome(Apply(op, x, v), f, "ok", "value", Apply(op, x, v), NULL, <<>>)

\* Copy/move assignment between two stored accessors: value = other.value.
StoredCopyAssign(x, y) == y

----------------------------------------------------------------------------
\* Properties passing by value (ReadonlyByValueProperty,
\* WriteonlyByValueProperty, ByValueProperty).

\* A get that answers a default value when no owner is set.
ByValueGetDefault(p, x, f) ==
    IF p = NULL THEN Outcome(x, f, "ok", "value", 0, NULL, <<>>)
    ELSE Outcome(x, f, "ok", "value", Getter(f, p), NULL, <<Call("get", p, NoValue)>>)

\* A get that answers from the accessor's own slot, not from the getter.
ByValueGetSlot(p, x, f) ==
    IF p = NULL THEN Thrown(x, f, <<>>)
    ELSE Outcome(x, f, "ok", "value", x, NULL, <<>>)

\* ReadonlyByValueProperty::get(), operator()(), conversion:
\* return (owner->*getter)().
ByValueGet(p, x, f) ==
    LET c == OwnerConvert(p) IN
    IF c.status # "ok" THEN Thrown(x, f, <<>>)
    ELSE IF c.target = NULL THEN Undefined(x, f, <<>>)
    ELSE Outcome(x, f, "ok", "value", Getter(f, c.target), NULL,
                 <<Call("get", c.target, NoValue)>>)

\* WriteonlyByValueProperty::set(v) and operator=(v): (owner->*setter)(value).
ByValueSet(p, x, f, v) ==
    LET c == OwnerConvert(p) IN
    IF c.status # "ok" THEN Thrown(x, f, <<>>)
    ELSE IF c.target = NULL THEN Undefined(x, f, <<>>)
    ELSE Outcome(x, Setter(f, c.target, v), "ok", "void", NoValue, NULL,
                 <<Call("set", c.target, v)>>)

\* WriteonlyByValueProperty::operator()(v): (owner->*setter)(value); return owner.
ByValueCall(p, x, f, v) ==
    LET s == ByValueSet(p, x, f, v) IN
    IF s.status # "ok" THEN s
    ELSE LET c == OwnerConvert(p) IN
         IF c.status # "ok" THEN Thrown(s.value, s.field, s.calls)
         ELSE Outcome(s.value, s.field, "ok", "owner", NoValue, c.target, s.calls)

\* ByValueProperty::operator=(v): (owner->*setter)(value); return get().
ByValueAssign(p, x, f, v) ==
    LET s == ByValueSet(p, x, f, v) IN
    IF s.status # "ok" THEN s
    ELSE LET g == ByValueGet(p, s.value, s.field) IN
         Outcome(g.value, g.field, g.status, g.retKind, g.ret, NULL, s.calls \o g.calls)

\* A compound operator that returns what it computed without asking the
\* getter again.
ByValueCompoundNoReread(p, x, f, op, v) ==
    LET g1 == ByValueGet(p, x, f) IN
    IF g1.status # "ok" THEN Outcome(x, f, g1.status, "none", NoValue, NULL, g1.calls)
    ELSE LET s == ByValueSet(p, g1.value, g1.field, Apply(op, g1.ret, v)) IN
         Outcome(s.value, s.field, s.status, "value", Apply(op, g1.ret, v), NULL,
                 g1.calls \o s.calls)

\* ByValueProperty::operator+=, -=, *=, /=: set(get() <op> value); return get().
ByValueCompound(p, x, f, op, v) ==
    LET g1 == ByValueGet(p, x, f) IN
    IF g1.status # "ok" THEN Outcome(x, f, g1.status, "none", NoValue, NULL, g1.calls)
    ELSE LET s == ByValueSet(p, g1.value, g1.field, Apply(op, g1.ret, v)) IN
         IF s.status # "ok"
         THEN Outcome(s.value, s.field, s.status, "none", NoValue, NULL, g1.calls \o s.calls)
         ELSE LET g2 == ByValueGet(p, s.value, s.field) IN
              Outcome(g2.value, g2.field, g2.status, g2.retKind, g2.ret, NULL,
                      g1.calls \o s.calls \o g2.calls)

----------------------------------------------------------------------------
\* Properties passing by reference (ReadonlyByReferenceProperty,
\* WriteonlyByReferenceProperty, ByReferenceProperty).

\* ReadonlyByReferenceProperty::get(): return (owner->*getter)();
\* operator()() and the conversion return get().
ByReferenceGet(p, x, f) ==
    LET c == OwnerConvert(p) IN
    IF c.status # "ok" THEN Thrown(x, f, <<>>)
    ELSE IF c.target = NULL THEN Undefined(x, f, <<>>)
    ELSE Outcome(x, f, "ok", "value", Getter(f, c.target), NULL,
                 <<Call("get", c.target, NoValue)>>)

\* A set that hands the setter a moved-from (emptied) value.
ByReferenceSetMovedFrom(p, x, f, v) ==
    IF p = NULL THEN Thrown(x, f, <<>>)
    ELSE Outcome(x, SetterByReference(f, p, AssignmentMake("value"), [value |-> 0]),
                 "ok", "void", NoValue, NULL, <<Call("set", p, 0)>>)

\* WriteonlyByReferenceProperty::set(v): (owner->*setter)(value), the value
\* converted to an Assignment carrier; operator=(v) calls set(v).
ByReferenceSet(p, x, f, v) ==
    LET c == OwnerConvert(p) IN
    IF c.status # "ok" THEN Thrown(x, f, <<>>)
    ELSE IF c.target = NULL THEN Undefined(x, f, <<>>)
    ELSE Outcome(x, SetterByReference(f, c.target, AssignmentMake("value"), [value |-> v]),
                 "ok", "void", NoValue, NULL, <<Call("set", c.target, v)>>)

\* WriteonlyByReferenceProperty::operator()(v): set(value); return owner.
ByReferenceCall(p, x, f, v) ==
    LET s == ByReferenceSet(p, x, f, v) IN
    IF s.status # "ok" THEN s
    ELSE LET c == OwnerConvert(p) IN
         IF c.status # "ok" THEN Thrown(s.value, s.field, s.calls)
         ELSE Outcome(s.value, s.field, "ok", "owner", NoValue, c.target, s.calls)

\* ByReferenceProperty::operator=(v): (owner->*setter)(value); return get().
ByReferenceAssign(p, x, f, v) ==
    LET s == ByReferenceSet(p, x, f, v) IN
    IF s.status # "ok" THEN s
    ELSE LET g == ByReferenceGet(p, s.value, s.field) IN
         Outcome(g.value, g.field, g.status, g.retKind, g.ret, NULL, s.calls \o g.calls)

\* ByReferenceProperty::operator+=, -=, *=, /=: set(get() <op> value); return get().
ByReferenceCompound(p, x, f, op, v) ==
    LET g1 == ByReferenceGet(p, x, f) IN
    IF g1.status # "ok" THEN Outcome(x, f, g1.status, "none", NoValue, NULL, g1.calls)
    ELSE LET s == ByReferenceSet(p, g1.value, g1.field, Apply(op, g1.ret, v)) IN
         IF s.status # "ok"
         THEN Outcome(s.value, s.field, s.status, "none", NoValue, NULL, g1.calls \o s.calls)
         ELSE LET g2 == ByReferenceGet(p, s.value, s.field) IN
              Outcome(g2.value, g2.field, g2.status, g2.retKind, g2.ret, NULL,
                      g1.calls \o s.calls \o g2.calls)

\* Copy/move assignment between two delegating accessors: { return *this; }.
DelegatingCopyAssign(x, y) == x

----------------------------------------------------------------------------
\* Dispatch on the class of the accessor.

ClassGet(c, p, x, f) ==
    IF c \in StoredClasses THEN StoredGet(p, x, f)
    ELSE IF c \in ByValueClasses THEN ByValueGet(p, x, f)
    ELSE ByReferenceGet(p, x, f)

ClassWrite(c, form, p, x, f, v) ==
    IF c \in StoredClasses THEN
        CASE form = "set" -> StoredSet(p, x, f, v)
          [] form = "call" -> StoredCall(p, x, f, v)
          [] form = "assign" ->
                IF c = "WriteonlyProperty" THEN WriteonlyAssign(p, x, f, v)
                ELSE PropertyAssign(p, x, f, v)
    ELSE IF c \in ByValueClasses THEN
        CASE form = "set" -> ByValueSet(p, x, f, v)
          [] form = "call" -> ByValueCall(p, x, f, v)
          [] form = "assign" ->
                IF c = "WriteonlyByValueProperty" THEN ByValueSet(p, x, f, v)
                ELSE ByValueAssign(p, x, f, v)
    ELSE
        CASE form = "set" -> ByReferenceSet(p, x, f, v)
          [] form = "call" -> ByReferenceCall(p, x, f, v)
          [] form = "assign" ->
                IF c = "WriteonlyByReferenceProperty" THEN ByReferenceSet(p, x, f, v)
                ELSE ByReferenceAssign(p, x, f, v)

ClassCompound(c, p, x, f, op, v) ==
    IF c = "WriteonlyProperty" THEN WriteonlyCompound(p, x, f, op, v)
    ELSE IF c \in StoredClasses THEN PropertyCompound(p, x, f, op, v)
    ELSE IF c \in ByValueClasses THEN ByValueCompound(p, x, f, op, v)
    ELSE ByReferenceCompound(p, x, f, op, v)

ClassCopyAssign(c, x, y) ==
    IF c \in StoredClasses THEN StoredCopyAssign(x, y) ELSE DelegatingCopyAssign(x, y)

\* Copy and move, for assignment and construction alike.
CopyKinds == {"copy", "move"}

\* What std::move(other.value) leaves in other.value: a shared pointer is
\* null after the move, an arithmetic value is copied.
MovedFrom(c, y) == IF c = "SharedProperty" THEN NullPointer ELSE y

\* The value slot of the source after a copy or a move out of it.
ClassCopySource(c, kind, y) ==
    IF kind = "move" /\ c \in StoredClasses THEN MovedFrom(c, y) ELSE y

\* The owner pointer of the target after "a = b": no assignment operator of
\* a property class touches the owner member.
CopyAssignOwner(pointer, other) == pointer

\* A memberwise copy construction, which would copy the owner pointer.
CopyConstructOwnerMemberwise(other) == other

\* The owner pointer of a copy- or move-constructed accessor: the copy
\* constructors do not initialise the owner member from other, so it is
\* PropertyOwner's default, nullptr.
CopyConstructOwner(other) == NULL

\* The value slot of a copy- or move-constructed accessor: other.value for
\* the stored classes; the delegating classes have none.
ClassCopyConstruct(c, y) == IF c \in StoredClasses THEN y ELSE 0

\* The classes whose non-const get(), operator()() and conversion return
\* Type&: ReadonlyProperty, ReadonlyByReferenceProperty and the classes
\* deriving from them.
MutableReferenceClasses ==
    {"ReadonlyProperty", "Property", "SharedProperty",
     "ReadonlyByReferenceProperty", "ByReferenceProperty"}

\* "accessor.get() = v" on a non-const accessor: the stored classes return
\* a reference to the value slot; the by-reference classes cast the const
\* away from the reference the owner's getter returns.
ReferenceStore(c, p, x, f, v) ==
    IF c \in StoredClasses THEN Outcome(v, f, "ok", "value", v, NULL, <<>>)
    ELSE LET g == ByReferenceGet(p, x, f) IN
         IF g.status # "ok" THEN g
         ELSE Outcome(g.value, [g.field EXCEPT ![p] = v], "ok", "value", v, NULL, g.calls)

\* The value a compound operator reads: the slot, or the bound owner's field.
Current(c, p, x, f) ==
    IF c \in StoredClasses THEN x ELSE IF p = NULL THEN 0 ELSE f[p]

\* The arithmetic of the compound operator is defined (no division by zero)
\* and its result is one of the enumerated values (no wrap-around).
CompoundInBounds(c, p, x, f, op, v) ==
    /\ op = "/" => v # 0
    /\ Apply(op, Current(c, p, x, f), v) \in Values

----------------------------------------------------------------------------
\* Properties with raw pointer (ReadonlyPointerProperty).  ptr is the
\* accessor's pointer, st the storage it may point into.

\* Outcome of a call on a ReadonlyPointerProperty.
AliasOutcome(st, status, rk, r) ==
    [storage |-> st, status |-> status, retKind |-> rk, ret |-> r,
     retOwner |-> NULL, calls |-> <<>>]

\* ReadonlyPointerProperty::get(), conversion to Type*, operator->():
\* return pointer.
PointerGet(ptr, st) == AliasOutcome(st, "ok", "pointer", ptr)

\* A dereference that reads one fixed object whatever the accessor's pointer.
PointerDerefShared(ptr, st, u) ==
    AliasOutcome(st, "ok", "value", st[CHOOSE l \in Locations : TRUE])

\* ReadonlyPointerProperty::operator*(): return *pointer.  Dereferencing a
\* null pointer is undefined: u is what the build makes of it, a crash
\* (NoValue) or some value read.
PointerDeref(ptr, st, u) ==
    IF ptr # NullPointer THEN AliasOutcome(st, "ok", "value", st[ptr])
    ELSE IF u = NoValue THEN AliasOutcome(st, "undefined", "none", NoValue)
    ELSE AliasOutcome(st, "ok", "value", u)

\* "*accessor = v" through the Type& of the non-const operator*() (or
\* "*accessor.get() = v" through the Type* of the non-const get()).  On a
\* null pointer it is undefined: u is a crash (NoValue) or the object hit.
PointerStore(ptr, st, v, u) ==
    IF ptr # NullPointer THEN AliasOutcome([st EXCEPT ![ptr] = v], "ok", "value", v)
    ELSE IF u = NoValue THEN AliasOutcome(st, "undefined", "none", NoValue)
    ELSE AliasOutcome([st EXCEPT ![u] = v], "ok", "value", v)

\* The implicit copy assignment of ReadonlyPointerProperty: pointer = other.pointer.
PointerCopyAssign(ptr, other) == other

----------------------------------------------------------------------------
\* Text: stream output and string concatenation of Readable properties.

DecimalDigits == <<"0", "1", "2", "3", "4", "5", "6", "7", "8", "9">>

HexDigits == DecimalDigits \o <<"a", "b", "c", "d", "e", "f">>

RECURSIVE ToText(_)
\* operator<< and std::to_string on an unsigned value: its decimal digits.
ToText(n) ==
    IF n < Len(DecimalDigits) THEN <<DecimalDigits[n + 1]>>
    ELSE ToText(n \div Len(DecimalDigits)) \o <<DecimalDigits[(n % Len(DecimalDigits)) + 1]>>

RECURSIVE ToHex(_)
ToHex(n) ==
    IF n < Len(HexDigits) THEN <<HexDigits[n + 1]>>
    ELSE ToHex(n \div Len(HexDigits)) \o <<HexDigits[(n % Len(HexDigits)) + 1]>>

\* operator<< on a pointer or on a shared pointer: the address, in
\* hexadecimal with its base prefix.
AddressText(ptr) == <<"0", "x">> \o ToHex(ptr)

\* The classes whose get() returns an address: SharedProperty returns the
\* shared pointer, ReadonlyPointerProperty the raw pointer.
AddressValued(c) == c \in {"SharedProperty"} \cup PointerClasses

\* "stream << property.get()" for a get() that returned r.
StreamText(c, r) == IF AddressValued(c) THEN AddressText(r) ELSE ToText(r)

\* to_string(property.get()): std::to_string for arithmetic types, an
\* ostringstream otherwise.
ToStringOf(c, r) == IF AddressValued(c) THEN StreamText(c, r) ELSE ToText(r)

\* operator<<(output, property): output << property.get().
StreamOut(output, c, g) ==
    IF g.status # "ok" THEN [status |-> g.status, text |-> output]
    ELSE [status |-> "ok", text |-> output \o StreamText(c, g.ret)]

\* operator+(text, property): text + to_string(property.get()).
ConcatLeft(t, c, g) ==
    IF g.status # "ok" THEN [status |-> g.status, text |-> <<>>]
    ELSE [status |-> "ok", text |-> t \o ToStringOf(c, g.ret)]

\* operator+(property, text): to_string(property.get()) + text.
ConcatRight(t, c, g) ==
    IF g.status # "ok" THEN [status |-> g.status, text |-> <<>>]
    ELSE [status |-> "ok", text |-> ToStringOf(c, g.ret) \o t]

\* The three generic operators.
RenderKinds == {"stream", "left", "right"}

\* The text the caller combines the property with.
Label == <<"i", "d", "=">>

RenderText(kind, c, g) ==
    CASE kind = "stream" -> StreamOut(<<>>, c, g)
      [] kind = "left" -> ConcatLeft(Label, c, g)
      [] kind = "right" -> ConcatRight(Label, c, g)

\* property.get() as the generic operators call it.
GetOf(c, p, x, f, ptr, st) ==
    IF c \in PointerClasses THEN PointerGet(ptr, st) ELSE ClassGet(c, p, x, f)

----------------------------------------------------------------------------

----------------------------------------------------------------------------
\* Assertions.h.

\* Message arguments handed to runtime_assert.
Messages == {"m1", "m2"}

\* stringify("Assertion failed: ", ...): the parts written to one stream.
AssertionMessage(message) == <<"Assertion failed: ", message>>

\* A runtime_assert that throws without writing its report.
RuntimeAssertStatementSilent(condition, message, output) ==
    IF RuntimeAssert(condition)
    THEN [status |-> "ok", output |-> output, what |-> <<>>]
    ELSE [status |-> "assert", output |-> output, what |-> AssertionMessage(message)]

\* The statement "runtime_assert(condition, message);".  output is what has
\* been written to std::cout so far; what is the thrown runtime_error's text.
RuntimeAssertStatement(condition, message, output) ==
    IF RuntimeAssert(condition)
    THEN [status |-> "ok", output |-> output, what |-> <<>>]
    ELSE [status |-> "assert",
          output |-> Append(output, [message |-> AssertionMessage(message),
                                     expression |-> "condition"]),
          what |-> AssertionMessage(message)]

----------------------------------------------------------------------------
\* Mathematics.h.

\* Largest magnitude of the projected value that is enumerated.
MaxProject == 7

ProjectValues == (0 - MaxProject)..MaxProject

\* Range limits that are enumerated.
RangeBegins == (0 - MaxValue)..MaxValue

RangeEnds(range_begin) == range_begin..(range_begin + MaxValue + 1)

\* int division and remainder: the quotient is truncated towards zero and
\* the remainder takes the sign of the dividend.
IntDiv(x, y) == IF x >= 0 THEN x \div y ELSE 0 - ((0 - x) \div y)

IntRem(x, y) == x - y * IntDiv(x, y)

\* A projection without the shift of values below range_begin.
ProjectUnshifted(value_, range_begin, range_end) ==
    LET range_size == (range_end + 1) - range_begin
    IN range_begin + IntRem(value_ - range_begin, range_size)

\* project(value, range_begin, range_end).
Project(value_, range_begin, range_end) ==
    LET range_size == (range_end + 1) - range_begin
        shifted == IF value_ < range_begin
                   THEN value_ + range_size * (IntDiv(range_begin - value_, range_size) + 1)
                   ELSE value_
    IN range_begin + IntRem(shifted - range_begin, range_size)

----------------------------------------------------------------------------
\* Strings.h.

\* Longest C string that is enumerated.
MaxLen == 3

Characters == {"a", "b"}

\* The character sequences of up to MaxLen characters.
Strings == UNION {[1..n -> Characters] : n \in 0..MaxLen}

\* A const char*: the null pointer or a pointer to the characters before
\* the terminating zero.
NullString == [null |-> TRUE, chars |-> <<>>]

CString(chars) == [null |-> FALSE, chars |-> chars]

CStrings == {CString(chars) : chars \in Strings} \cup {NullString}

\* strlen.
StrLen(string) == Len(string.chars)

\* strstr(scanned, match): the offset of the first occurrence of match in
\* scanned, NoValue for the null pointer it returns when there is none.
StrStr(scanned, match) ==
    LET hits == {i \in 0..(StrLen(scanned) - StrLen(match)) :
                    SubSeq(scanned.chars, i + 1, i + StrLen(match)) = match.chars}
    IN IF hits = {} THEN NoValue
       ELSE CHOOSE i \in hits : \A j \in hits : i <= j

\* ends_with(const char* match, const char* scanned).  Without an occurrence
\* strstr returns a null pointer and "match_in_scanned - scanned" is
\* undefined: u is the offset the build computes.
EndsWith(match, scanned, u) ==
    IF match.null \/ scanned.null THEN [ret |-> FALSE, defined |-> TRUE]
    ELSE LET match_length == StrLen(match)
             scanned_length == StrLen(scanned)
         IN IF scanned_length < match_length THEN [ret |-> FALSE, defined |-> TRUE]
            ELSE LET match_in_scanned == StrStr(scanned, match)
                     position_in_scanned ==
                         IF match_in_scanned = NoValue THEN u ELSE match_in_scanned
                 IN [ret |-> position_in_scanned = scanned_length - match_length,
                     defined |-> match_in_scanned # NoValue]

----------------------------------------------------------------------------
\* Optional.h.  An Optional is [_value |-> the object its shared pointer
\* owns, NoValue for a null pointer]; a Potential is [_value, _exists].

OptionalClasses == {"Optional", "Potential"}

\* How an optional is constructed: from a value, from nullptr, by default.
Constructions == {"value", "nullptr", "default"}

\* Optional(const Type&) and Optional(const shared<Type>& = nullptr).
OptionalMake(made, v) == [_value |-> IF made = "value" THEN v ELSE NoValue]

\* Potential(const Type&) and Potential(void* = nullptr); u is the content
\* of the _value member the latter leaves default-initialised.
PotentialMake(made, v, u) ==
    IF made = "value" THEN [_value |-> v, _exists |-> TRUE]
    ELSE [_value |-> u, _exists |-> FALSE]

\* exists().
Exists(c, optional) ==
    IF c = "Optional" THEN optional._value # NoValue ELSE optional._exists

\* value().
ValueOf(c, optional) ==
    IF RuntimeAssert(Exists(c, optional))
    THEN [status |-> "ok", ret |-> optional._value]
    ELSE [status |-> "assert", ret |-> NoValue]

\* value_or(other).
ValueOr(c, optional, other) ==
    IF Exists(c, optional) THEN optional._value ELSE other

\* then(operation); ran lists the operations invoked so far.
Then(c, optional, ran) ==
    IF Exists(c, optional)
    THEN Append(ran, [operation |-> "then", arg |-> optional._value])
    ELSE ran

\* An otherwise that invokes its operation whatever the optional holds.
OtherwiseAlways(c, optional, ran) ==
    Append(ran, [operation |-> "otherwise", arg |-> NoValue])

\* otherwise(operation).
Otherwise(c, optional, ran) ==
    IF ~Exists(c, optional)
    THEN Append(ran, [operation |-> "otherwise", arg |-> NoValue])
    ELSE ran

OptionalOps == {"value", "value_or", "then_otherwise"}

----------------------------------------------------------------------------
\* Parsing.h.  A text is the sequence of the values its space-separated
\* tokens parse to: parse yields the first one and moves next behind it,
\* and leaves next at text when nothing is left to convert.

\* Largest number of values in a parsed text.
MaxParsed == 5

Texts == UNION {[1..n -> Values] : n \in 0..MaxParsed}

\* The group sizes of parse_tuples, parse_triples and parse_quadruples.
GroupSizes == {2, 3, 4}

RECURSIVE ParseGroupsUnwrapped(_, _, _, _, _)
\* A grouping whose offset is not wrapped at the end of a group.
ParseGroupsUnwrapped(text, N, values, offset, consumed) ==
    IF text = <<>>
    THEN [status |-> IF RuntimeAssert(offset = 0) THEN "ok" ELSE "assert",
          consumed |-> consumed]
    ELSE LET stored == IF offset < N THEN [values EXCEPT ![offset + 1] = Head(text)]
                       ELSE values
         IN ParseGroupsUnwrapped(Tail(text), N, stored, offset + 1,
                                 IF offset = N - 1 THEN Append(consumed, stored)
                                 ELSE consumed)

RECURSIVE ParseGroups(_, _, _, _, _)
\* _parse_groups over parse_singles: every parsed value is stored in
\* values[offset]; at offset N - 1 the group is consumed; offset advances
\* modulo N; after the last value offset == 0 is asserted.
ParseGroups(text, N, values, offset, consumed) ==
    IF text = <<>>
    THEN [status |-> IF RuntimeAssert(offset = 0) THEN "ok" ELSE "assert",
          consumed |-> consumed]
    ELSE LET stored == [values EXCEPT ![offset + 1] = Head(text)]
         IN ParseGroups(Tail(text), N, stored, (offset + 1) % N,
                        IF offset = N - 1 THEN Append(consumed, stored)
                        ELSE consumed)

\* parse_tuples, parse_triples, parse_quadruples: "Type values[N]" and an
\* unpack that hands values[0..N-1] to consume.
ParseInGroupsOf(N, text) == ParseGroups(text, N, [i \in 1..N |-> 0], 0, <<>>)

\* The record of the operation performed last ("text": what a stream output
\* or a string concatenation produced; "recovering": see Recovering).
Done(op, form, a, v, o, b, before, out) ==
    [op |-> op, form |-> form, acc |-> a, arg |-> v, argOwner |-> o, src |-> b,
     ptrBefore |-> before, status |-> out.status, retKind |-> out.retKind,
     ret |-> out.ret, retOwner |-> out.retOwner, calls |-> out.calls, text |-> <<>>,
     recovering |-> FALSE]

\* The operation about to be performed on delegating accessor a follows an
\* unbound-owner failure of a get or set of a, with nothing in between but
\* binds, gets and sets of a.
Recovering(a) ==
    /\ cls \in DelegatingClasses
    /\ last.acc = a
    /\ \/ last.op \in {"read", "write"} /\ last.ptrBefore = NULL /\ last.status = "assert"
       \/ last.recovering

\* After construction: both accessors unbound; a stored accessor holds the
\* value it was constructed with (value-initialised, 0, by default).
Init ==
    /\ cls \in Scenarios
    /\ owner = [a \in Accessors |-> NULL]
    /\ value \in [Accessors -> Values]
    /\ cls \notin StoredClasses => value = [a \in Accessors |-> 0]
    /\ alias \in [Accessors -> Locations \cup {NullPointer}]
    /\ cls \notin PointerClasses => alias = [a \in Accessors |-> NullPointer]
    /\ storage = [l \in Locations |-> 0]
    /\ box = [made |-> FALSE, alive |-> FALSE, source |-> 0, madeWith |-> 0,
              target |-> 0, carrier |-> AssignmentMake("none")]
    /\ field = [o \in Owners |-> 0]
    /\ run = [fn |-> "none"]
    /\ last = Done("construct", "construct", "a", NoValue, NULL, "a", NULL,
                   Outcome(0, field, "ok", "none", NoValue, NULL, <<>>))

\* "name.owner = o" in the enclosing class (PropertyOwner::operator=).
Bind(a, o) ==
    LET r == OwnerAssign(owner[a], o) IN
    /\ cls \in Classes
    /\ owner' = [owner EXCEPT ![a] = r.pointer]
    /\ last' = [Done("bind", "bind", a, NoValue, o, a, owner[a],
                     Outcome(value[a], field, r.status, "void", NoValue, NULL, <<>>))
                EXCEPT !.recovering = Recovering(a)]
    /\ UNCHANGED <<cls, value, field, others>>

\* get(), operator()() or the value conversion.
Read(a, form) ==
    /\ form \in ReadForms(cls)
    /\ LET out == ClassGet(cls, owner[a], value[a], field) IN
       /\ value' = [value EXCEPT ![a] = out.value]
       /\ field' = out.field
       /\ last' = [Done("read", form, a, NoValue, NULL, a, owner[a], out)
                   EXCEPT !.recovering = Recovering(a)]
    /\ UNCHANGED <<cls, owner, others>>

\* set(v), operator=(v) or operator()(v).
Write(a, form, v) ==
    /\ form \in WriteForms(cls)
    /\ LET out == ClassWrite(cls, form, owner[a], value[a], field, v) IN
       /\ value' = [value EXCEPT ![a] = out.value]
       /\ field' = out.field
       /\ last' = [Done("write", form, a, v, NULL, a, owner[a], out)
                   EXCEPT !.recovering = Recovering(a)]
    /\ UNCHANGED <<cls, owner, others>>

\* operator+=, -=, *=, /=.
Compound(a, op, v) ==
    /\ op \in CompoundOps(cls)
    /\ CompoundInBounds(cls, owner[a], value[a], field, op, v)
    /\ LET out == ClassCompound(cls, owner[a], value[a], field, op, v) IN
       /\ value' = [value EXCEPT ![a] = out.value]
       /\ field' = out.field
       /\ last' = Done("compound", op, a, v, NULL, a, owner[a], out)
    /\ UNCHANGED <<cls, owner, others>>

\* a = b between two accessors of the same class.
CopyAssign(a, b, kind) ==
    /\ a # b
    /\ cls \in Classes
    /\ LET x == ClassCopyAssign(cls, value[a], value[b]) IN
       /\ value' = [value EXCEPT ![a] = x, ![b] = ClassCopySource(cls, kind, value[b])]
       /\ owner' = [owner EXCEPT ![a] = CopyAssignOwner(owner[a], owner[b])]
       /\ last' = Done("copy", kind, a, NoValue, NULL, b, owner[a],
                       Outcome(x, field, "ok", "value", x, NULL, <<>>))
    /\ UNCHANGED <<cls, field, others>>

\* "Class a(b);" or "Class a(std::move(b));": accessor a starts its life
\* as a copy of accessor b of the same class.
CopyConstruct(a, b, kind) ==
    /\ a # b
    /\ cls \in Classes
    /\ owner[a] = NULL
    /\ LET x == ClassCopyConstruct(cls, value[b]) IN
       /\ value' = [value EXCEPT ![a] = x, ![b] = ClassCopySource(cls, kind, value[b])]
       /\ owner' = [owner EXCEPT ![a] = CopyConstructOwner(owner[b])]
       /\ last' = Done("copy_construct", kind, a, NoValue, NULL, b, owner[a],
                       Outcome(x, field, "ok", "void", NoValue, NULL, <<>>))
    /\ UNCHANGED <<cls, field, others>>

\* "accessor.get() = v", "accessor() = v" or a write through the Type&
\* conversion, by a caller holding a non-const accessor.
ReferenceWrite(a, form, v) ==
    /\ cls \in MutableReferenceClasses
    /\ form \in ReadForms(cls)
    /\ LET out == ReferenceStore(cls, owner[a], value[a], field, v) IN
       /\ value' = [value EXCEPT ![a] = out.value]
       /\ field' = out.field
       /\ last' = Done("ref_write", form, a, v, NULL, a, owner[a], out)
    /\ UNCHANGED <<cls, owner, others>>

\* The owner of a delegating accessor changes its own data.
OwnerWrite(o, v) ==
    /\ cls \in DelegatingClasses
    /\ field[o] # v
    /\ field' = [field EXCEPT ![o] = v]
    /\ last' = Done("owner", "owner", "a", v, o, "a", owner["a"],
                    Outcome(value["a"], field', "ok", "void", NoValue, NULL, <<>>))
    /\ UNCHANGED <<cls, owner, value, others>>

\* "output << property", "text + property" or "property + text" on a
\* Readable property.  The text of a null address is implementation-defined
\* and left out.
Render(a, kind) ==
    /\ Readable(cls)
    /\ cls = "SharedProperty" => value[a] # NullPointer
    /\ cls \in PointerClasses => alias[a] # NullPointer
    /\ LET g == GetOf(cls, owner[a], value[a], field, alias[a], storage)
           r == RenderText(kind, cls, g)
       IN last' = [Done("render", kind, a, NoValue, NULL, a, owner[a],
                        [g EXCEPT !.status = r.status]) EXCEPT !.text = r.text]
    /\ UNCHANGED <<cls, owner, value, field, others>>

\* get(), the conversion, operator->() or operator*() of a
\* ReadonlyPointerProperty.
PointerRead(a, form, u) ==
    /\ cls \in PointerClasses
    /\ form \in PointerReadForms
    /\ u # NoValue => (form = "deref" /\ alias[a] = NullPointer)
    /\ LET out == IF form = "deref" THEN PointerDeref(alias[a], storage, u)
                  ELSE PointerGet(alias[a], storage)
       IN /\ storage' = out.storage
          /\ last' = Done("ptr_read", form, a, NoValue, NULL, a, NULL, out)
    /\ UNCHANGED <<cls, owner, value, field, alias, box, run>>

\* "*accessor = v" by a caller holding a non-const ReadonlyPointerProperty.
PointerWrite(a, v, u) ==
    /\ cls \in PointerClasses
    /\ u # NoValue => alias[a] = NullPointer
    /\ LET out == PointerStore(alias[a], storage, v, u) IN
       /\ storage' = out.storage
       /\ last' = Done("ptr_write", "deref", a, v, NULL, a, NULL, out)
    /\ UNCHANGED <<cls, owner, value, field, alias, box, run>>

\* a = b between two ReadonlyPointerProperty instances.
PointerCopy(a, b) ==
    /\ cls \in PointerClasses
    /\ a # b
    /\ alias' = [alias EXCEPT ![a] = PointerCopyAssign(alias[a], alias[b])]
    /\ last' = Done("ptr_copy", "copy", a, NoValue, NULL, b, NULL,
                    AliasOutcome(storage, "ok", "value", alias'[a]))
    /\ UNCHANGED <<cls, owner, value, field, storage, box, run>>

\* The owner of a storage location changes the object in it.
StorageWrite(l, v) ==
    /\ cls \in PointerClasses
    /\ storage[l] # v
    /\ storage' = [storage EXCEPT ![l] = v]
    /\ last' = Done("storage", "storage", "a", v, NULL, "a", NULL,
                    AliasOutcome(storage', "ok", "void", NoValue))
    /\ UNCHANGED <<cls, owner, value, field, alias, box, run>>

\* "Type source = v; Assignment<Type> carrier(source);"
CarrierMake(v) ==
    /\ cls = "Assignment"
    /\ ~box.made
    /\ box' = [made |-> TRUE, alive |-> TRUE, source |-> v, madeWith |-> v,
               target |-> box.target, carrier |-> AssignmentMake("source")]
    /\ last' = Done("make", "make", "a", v, NULL, "a", NULL,
                    AliasOutcome(storage, "ok", "void", NoValue))
    /\ UNCHANGED <<cls, owner, value, field, alias, storage, run>>

\* The variable the carrier was built from is assigned another value.
SourceChange(v) ==
    /\ cls = "Assignment"
    /\ box.made /\ box.alive /\ box.source # v
    /\ box' = [box EXCEPT !.source = v]
    /\ last' = Done("change", "change", "a", v, NULL, "a", NULL,
                    AliasOutcome(storage, "ok", "void", NoValue))
    /\ UNCHANGED <<cls, owner, value, field, alias, storage, run>>

\* The variable the carrier was built from goes out of scope.
SourceDie ==
    /\ cls = "Assignment"
    /\ box.made /\ box.alive
    /\ box' = [box EXCEPT !.alive = FALSE]
    /\ last' = Done("die", "die", "a", NoValue, NULL, "a", NULL,
                    AliasOutcome(storage, "ok", "void", NoValue))
    /\ UNCHANGED <<cls, owner, value, field, alias, storage, run>>

\* carrier.to(target).  With the referenced variable gone the read is
\* undefined: u is a crash (NoValue) or the value found in its place.
CarrierTo(u) ==
    /\ cls = "Assignment"
    /\ box.made
    /\ u # NoValue => ~box.alive
    /\ LET r == CarrierDeposit(box.carrier, box.alive, [source |-> box.source],
                               box.target, u)
       IN /\ box' = [box EXCEPT !.target = r.target]
          /\ last' = Done("to", "to", "a", NoValue, NULL, "a", NULL,
                          AliasOutcome(storage, r.status, r.retKind, r.ret))
    /\ UNCHANGED <<cls, owner, value, field, alias, storage, run>>

\* An operation made of "runtime_assert(condition, message);" and one
\* statement after it; after tells whether that statement was executed.
AssertCall(condition, message) ==
    /\ cls = "runtime_assert"
    /\ run.fn = "none"
    /\ LET r == RuntimeAssertStatement(condition, message, <<>>) IN
       run' = [fn |-> "runtime_assert", condition |-> condition, message |-> message,
               status |-> r.status, output |-> r.output, what |-> r.what,
               after |-> r.status = "ok"]
    /\ UNCHANGED <<cls, owner, value, field, last, alias, storage, box>>

\* project(v, range_begin, range_end) with range_begin <= range_end.
ProjectCall(v, range_begin, range_end) ==
    /\ cls = "project"
    /\ run.fn = "none"
    /\ range_begin <= range_end
    /\ run' = [fn |-> "project", value |-> v, range_begin |-> range_begin,
               range_end |-> range_end, ret |-> Project(v, range_begin, range_end)]
    /\ UNCHANGED <<cls, owner, value, field, last, alias, storage, box>>

\* ends_with(match, scanned) on C strings; u is only read on the undefined
\* path.
EndsWithCall(match, scanned, u) ==
    /\ cls = "ends_with"
    /\ run.fn = "none"
    /\ LET r == EndsWith(match, scanned, u) IN
       /\ r.defined => u = 0
       /\ run' = [fn |-> "ends_with", match |-> match, scanned |-> scanned,
                  ret |-> r.ret, defined |-> r.defined]
    /\ UNCHANGED <<cls, owner, value, field, last, alias, storage, box>>

\* An Optional or Potential is constructed and one of value(),
\* value_or(other) and then(f).otherwise(g) is called on it.
OptionalCall(made, v, u, op, other) ==
    /\ cls \in OptionalClasses
    /\ run.fn = "none"
    /\ op \in OptionalOps
    /\ (cls = "Optional" \/ made = "value") => u = 0
    /\ op # "value_or" => other = 0
    /\ LET optional == IF cls = "Optional" THEN OptionalMake(made, v)
                       ELSE PotentialMake(made, v, u)
           r == IF op = "value" THEN ValueOf(cls, optional)
                ELSE IF op = "value_or"
                THEN [status |-> "ok", ret |-> ValueOr(cls, optional, other)]
                ELSE [status |-> "ok", ret |-> NoValue]
           ran == IF op = "then_otherwise"
                  THEN Otherwise(cls, optional, Then(cls, optional, <<>>))
                  ELSE <<>>
       IN run' = [fn |-> cls, op |-> op, made |-> made, held |-> v, other |-> other,
                  exists |-> Exists(cls, optional), status |-> r.status,
                  ret |-> r.ret, ran |-> ran]
    /\ UNCHANGED <<cls, owner, value, field, last, alias, storage, box>>

\* parse_tuples(text, ...), parse_triples(text, ...) or
\* parse_quadruples(text, ...).
ParseCall(N, text) ==
    /\ cls = "parse_groups"
    /\ run.fn = "none"
    /\ LET r == ParseInGroupsOf(N, text) IN
       run' = [fn |-> "parse_groups", N |-> N, text |-> text,
               status |-> r.status, consumed |-> r.consumed]
    /\ UNCHANGED <<cls, owner, value, field, last, alias, storage, box>>

Next ==
    \/ \E a \in Accessors, o \in Owners \cup {NULL} : Bind(a, o)
    \/ \E a \in Accessors, form \in {"get", "call", "conv"} : Read(a, form)
    \/ \E a \in Accessors, form \in {"set", "assign", "call"}, v \in Values : Write(a, form, v)
    \/ \E a \in Accessors, op \in ArithmeticOps, v \in Values : Compound(a, op, v)
    \/ \E a \in Accessors, form \in {"get", "call", "conv"}, v \in Values :
            ReferenceWrite(a, form, v)
    \/ \E a \in Accessors, b \in Accessors, kind \in CopyKinds : CopyAssign(a, b, kind)
    \/ \E a \in Accessors, b \in Accessors, kind \in CopyKinds : CopyConstruct(a, b, kind)
    \/ \E o \in Owners, v \in Values : OwnerWrite(o, v)
    \/ \E a \in Accessors, kind \in RenderKinds : Render(a, kind)
    \/ \E a \in Accessors, form \in PointerReadForms, u \in Values \cup {NoValue} :
            PointerRead(a, form, u)
    \/ \E a \in Accessors, v \in Values, u \in Locations \cup {NoValue} : PointerWrite(a, v, u)
    \/ \E a \in Accessors, b \in Accessors : PointerCopy(a, b)
    \/ \E l \in Locations, v \in Values : StorageWrite(l, v)
    \/ \E v \in Values : CarrierMake(v)
    \/ \E v \in Values : SourceChange(v)
    \/ SourceDie
    \/ \E u \in Values \cup {NoValue} : CarrierTo(u)
    \/ \E condition \in BOOLEAN, message \in Messages : AssertCall(condition, message)
    \/ /\ cls = "project"
       /\ \E v \in ProjectValues, range_begin \in RangeBegins :
            \E range_end \in RangeEnds(range_begin) : ProjectCall(v, range_begin, range_end)
    \/ /\ cls = "ends_with"
       /\ \E match \in CStrings, scanned \in CStrings, u \in 0..(MaxLen + 1) :
            EndsWithCall(match, scanned, u)
    \/ /\ cls \in OptionalClasses
       /\ \E made \in Constructions, v \in Values, u \in Values, op \in OptionalOps,
             other \in Values : OptionalCall(made, v, u, op, other)
    \/ /\ cls = "parse_groups"
       /\ \E N \in GroupSizes, text \in Texts : ParseCall(N, text)

Spec == Init /\ [][Next]_vars

----------------------------------------------------------------------------
\* Owner binding.

\* C1: binding an accessor that is already bound fails with an assertion
\* failure, for any two non-null owners (the same owner twice included).
C1_SecondBindFails ==
    (last.op = "bind" /\ last.ptrBefore # NULL /\ last.argOwner # NULL)
        => last.status = "assert"

\* C2: binding an unbound accessor with a null owner reference fails with
\* an assertion failure at the bind call, and the accessor stays unbound.
C2_NullBindFails ==
    (last.op = "bind" /\ last.ptrBefore = NULL /\ last.argOwner = NULL)
        => (last.status = "assert" /\ owner[last.acc] = NULL)

\* C3: once an accessor's owner reference is owner O it is O in every later
\* state: no operation makes it absent or makes it refer to another owner.
C3_BoundnessMonotonic ==
    [][\A a \in Accessors : owner[a] # NULL => owner'[a] = owner[a]]_vars

----------------------------------------------------------------------------
\* Access before binding.

\* C4: a read (get(), the no-argument call form, the conversion) on an
\* unbound delegating accessor fails with an assertion failure: it returns
\* no value and calls no getter.
C4_UnboundDelegatingReadFails ==
    (last.op = "read" /\ cls \in DelegatingClasses /\ last.ptrBefore = NULL)
        => (last.status = "assert" /\ last.retKind = "none" /\ last.calls = <<>>)

C4_Witness ==
    /\ last.op = "read" /\ last.form = "get"
    /\ cls = "ReadonlyByReferenceProperty"
    /\ last.ptrBefore = NULL
    /\ last.status = "assert"

\* C5: set(v), assignment, the one-argument call form or a compound
\* assignment on an unbound delegating accessor fails with an assertion
\* failure before any setter is called: no owner's data changes.
C5_UnboundDelegatingWriteFails ==
    [][(last'.op \in {"write", "compound"} /\ cls \in DelegatingClasses
            /\ last'.ptrBefore = NULL)
        => (/\ last'.status = "assert"
            /\ field' = field
            /\ \A i \in DOMAIN last'.calls : last'.calls[i].method # "set")]_vars

C5_Witness ==
    /\ last.op = "write" /\ last.form = "set" /\ last.arg # 0
    /\ cls = "WriteonlyByValueProperty"
    /\ last.ptrBefore = NULL
    /\ last.status = "assert"
    /\ \A o \in Owners : field[o] = 0

\* C6: the chaining write form (operator()(v)) on a Stored or SharedOwned
\* accessor without an owner fails with an assertion failure and returns
\* no owner reference.
C6_UnboundChainingFails ==
    (last.op = "write" /\ last.form = "call" /\ cls \in StoredClasses
            /\ last.ptrBefore = NULL)
        => (last.status = "assert" /\ last.retKind # "owner")

C6_Witness ==
    /\ last.op = "write" /\ last.form = "call"
    /\ cls = "SharedProperty"
    /\ last.ptrBefore = NULL
    /\ last.status = "assert"

\* C7: on an unbound Stored or SharedOwned accessor every operation other
\* than the chaining write form (reads, set(v), assignment, compound
\* assignment) succeeds without an assertion failure.
C7_StoredNeedsNoOwner ==
    (/\ cls \in StoredClasses
     /\ last.ptrBefore = NULL
     /\ \/ last.op \in {"read", "compound"}
        \/ (last.op = "write" /\ last.form \in {"set", "assign"}))
        => last.status = "ok"

C7_Witness ==
    /\ cls = "Property"
    /\ last.op = "write" /\ last.form = "set" /\ last.arg # 0
    /\ last.ptrBefore = NULL /\ owner[last.acc] = NULL
    /\ last.status = "ok"
    /\ value[last.acc] = last.arg

----------------------------------------------------------------------------
\* Laws of the read-write accessors.

\* C8: after a successful set(v), assignment of v or one-argument call with
\* v on a Stored or SharedOwned read-write accessor, get() returns v.
C8_RoundTrip ==
    (last.op = "write" /\ cls \in {"Property", "SharedProperty"} /\ last.status = "ok")
        => LET g == ClassGet(cls, owner[last.acc], value[last.acc], field) IN
           g.status = "ok" /\ g.ret = last.arg

C8_Witness ==
    /\ last.op = "write" /\ last.form = "assign" /\ last.arg # 0
    /\ cls = "Property"
    /\ last.status = "ok"
    /\ value[last.acc] = last.arg

\* What "x = x.get() <op> v" does: get(), then operator= with the result.
AssignOfGet(c, p, x, f, op, v) ==
    LET g == ClassGet(c, p, x, f) IN
    IF g.status # "ok" THEN Outcome(x, f, g.status, "none", NoValue, NULL, g.calls)
    ELSE LET s == ClassWrite(c, "assign", p, g.value, g.field, Apply(op, g.ret, v)) IN
         Outcome(s.value, s.field, s.status, s.retKind, s.ret, s.retOwner,
                 g.calls \o s.calls)

\* C9: on a read-write accessor, x <op>= v leaves the accessor and the
\* owners in the same state, ends the same way, returns the same result and
\* calls the same owner methods as x = x.get() <op> v, for +, -, * and /.
C9_CompoundIsAssignOfGet ==
    [][(last'.op = "compound" /\ ReadWrite(cls))
        => LET a == last'.acc
               alt == AssignOfGet(cls, owner[a], value[a], field, last'.form, last'.arg)
           IN /\ value'[a] = alt.value
              /\ field' = alt.field
              /\ last'.status = alt.status
              /\ last'.retKind = alt.retKind
              /\ last'.ret = alt.ret
              /\ last'.calls = alt.calls]_vars

C9_Witness ==
    /\ last.op = "compound" /\ last.form = "+" /\ last.arg = 1
    /\ cls = "ByReferenceProperty"
    /\ last.status = "ok"
    /\ last.ret = MaxValue
    /\ Len(last.calls) = 3

\* C10 as stated: compound mutation operators exist only on read-write
\* accessors; no write-only accessor has one.
C10_CompoundOnlyOnReadWrite ==
    last.op = "compound" => ReadWrite(cls)

\* C10 amended: compound mutation operators exist on the read-write
\* accessors and on the write-only Stored accessor; the write-only
\* delegating accessors have none.
C10_CompoundNotOnWriteonlyDelegating ==
    last.op = "compound" => (ReadWrite(cls) \/ cls = "WriteonlyProperty")

C10_Witness ==
    /\ last.op = "compound" /\ last.form = "*" /\ last.arg = 2
    /\ cls = "WriteonlyProperty"
    /\ last.status = "ok" /\ last.retKind = "void"
    /\ value[last.acc] = 2

----------------------------------------------------------------------------
\* Delegation.

\* C11: on a bound delegating accessor get() calls the owner's getter once,
\* on the bound owner, and returns its result unchanged; set(v) calls the
\* owner's setter once, on the bound owner, with v; no other owner is
\* called or changed.
C11_DelegationForwardsOnce ==
    [][(cls \in DelegatingClasses /\ last'.ptrBefore # NULL)
        => LET p == last'.ptrBefore IN
           /\ (last'.op = "read" /\ last'.form = "get")
                => (/\ last'.status = "ok"
                    /\ last'.calls = <<Call("get", p, NoValue)>>
                    /\ last'.retKind = "value"
                    /\ last'.ret = Getter(field, p)
                    /\ field' = field)
           /\ (last'.op = "write" /\ last'.form = "set")
                => (/\ last'.status = "ok"
                    /\ last'.calls = <<Call("set", p, last'.arg)>>
                    /\ \A o \in Owners \ {p} : field'[o] = field[o])]_vars

C11_Witness ==
    /\ cls = "WriteonlyByReferenceProperty"
    /\ last.op = "write" /\ last.form = "set" /\ last.arg = MaxValue
    /\ last.ptrBefore = "o2"
    /\ last.status = "ok"
    /\ last.calls = <<Call("set", "o2", MaxValue)>>
    /\ field["o2"] = MaxValue /\ field["o1"] = 0

\* C12: on a bound ByReferenceProperty whose getter and setter read and
\* write one field of the owner, after the assignment of v get() returns v
\* and stream output of the accessor writes the text of v.
C12_AssignThenGetAndPrint ==
    (cls = "ByReferenceProperty" /\ last.op = "write" /\ last.form = "assign"
            /\ last.status = "ok")
        => LET a == last.acc
               g == ClassGet(cls, owner[a], value[a], field)
           IN /\ g.status = "ok"
              /\ g.ret = last.arg
              /\ StreamOut(<<>>, cls, g) = [status |-> "ok", text |-> ToText(last.arg)]

C12_Witness ==
    /\ cls = "ByReferenceProperty"
    /\ last.op = "write" /\ last.form = "assign" /\ last.arg = MaxValue
    /\ last.ptrBefore = "o1"
    /\ last.status = "ok"
    /\ field["o1"] = MaxValue
    /\ Len(last.calls) = 2

\* C13: stream output and both string concatenations of a bound
\* by-value delegating accessor whose getter returns x produce the text
\* they produce for a Stored accessor holding x.
C13_CapabilityErasure ==
    (last.op = "render" /\ cls \in ByValueClasses /\ owner[last.acc] # NULL)
        => LET x == Getter(field, owner[last.acc])
               stored == RenderText(last.form, "Property", StoredGet(NULL, x, field))
           IN /\ last.status = "ok"
              /\ stored.status = "ok"
              /\ last.text = stored.text

C13_Witness ==
    /\ cls = "ReadonlyByValueProperty"
    /\ last.op = "render" /\ last.form = "right"
    /\ owner[last.acc] = "o2" /\ field["o2"] = MaxValue
    /\ last.status = "ok"
    /\ last.text = ToText(MaxValue) \o Label

\* C14: stream output and string concatenation of a PointerAlias accessor
\* over storage holding x, and of a SharedOwned accessor whose handle
\* refers to x, produce the text they produce for a Stored accessor
\* holding x.
C14_UniformOverStrategies ==
    (last.op = "render" /\ AddressValued(cls))
        => LET a == last.acc
               x == IF cls \in PointerClasses THEN storage[alias[a]] ELSE storage[value[a]]
               stored == RenderText(last.form, "Property", StoredGet(NULL, x, field))
           IN last.status = "ok" /\ last.text = stored.text

----------------------------------------------------------------------------
\* ReadonlyPointerProperty.

\* C15: two PointerAlias accessors over distinct storage locations A and B
\* report independently: dereferencing each yields the current value of its
\* own location, and a step that changes A leaves what the accessor over B
\* reports unchanged.
C15_AliasesIndependent ==
    [][(cls \in PointerClasses)
        => (\A a \in Accessors, b \in Accessors :
            (/\ alias[a] # NullPointer /\ alias[b] # NullPointer
             /\ alias[a] # alias[b] /\ alias' = alias)
            => (/\ PointerDeref(alias[a], storage', NoValue).ret = storage'[alias[a]]
                /\ ((last'.op = "ptr_read" /\ last'.form = "deref" /\ last'.acc = a)
                        => (last'.status = "ok" /\ last'.ret = storage[alias[a]]))
                /\ ((storage'[alias[a]] # storage[alias[a]])
                        => (PointerDeref(alias[b], storage', NoValue).ret
                                = PointerDeref(alias[b], storage, NoValue).ret))))]_vars

C15_Witness ==
    /\ cls \in PointerClasses
    /\ alias["a"] # NullPointer /\ alias["b"] # NullPointer /\ alias["a"] # alias["b"]
    /\ storage[alias["a"]] = MaxValue /\ storage[alias["b"]] = 1
    /\ last.op = "ptr_read" /\ last.form = "deref" /\ last.acc = "b"
    /\ last.status = "ok" /\ last.ret = 1

\* C16: every read (get, conversion, member access, dereference) through a
\* PointerAlias accessor whose pointer is null fails with an assertion
\* failure.
C16_NullAliasFailsFast ==
    (last.op = "ptr_read" /\ alias[last.acc] = NullPointer)
        => last.status = "assert"

\* C17: no operation a caller of a PointerAlias accessor has (reads,
\* rendering, what the reads return, assignment between accessors) changes
\* the storage a PointerAlias accessor refers to, or which storage that is.
C17_AliasReadOnly ==
    [][(/\ cls \in PointerClasses
        /\ last'.op \in {"ptr_read", "ptr_write", "ptr_copy", "render"}
        /\ alias[last'.acc] # NullPointer)
        => (storage' = storage /\ alias' = alias)]_vars

----------------------------------------------------------------------------
\* Results and effects of writes.

\* C18 as stated: on a bound accessor the chaining write returns exactly the
\* owner it is bound to, and every non-chaining write (set, assignment)
\* returns the stored value just written.
C18_WriteReturnsOwnerOrValue ==
    (last.op = "write" /\ last.status = "ok" /\ cls \in StoredClasses)
        => IF last.form = "call"
           THEN last.retKind = "owner" /\ last.retOwner = last.ptrBefore
           ELSE last.retKind = "value" /\ last.ret = last.arg

\* C18 amended: the one-argument call form on a bound accessor returns
\* exactly the owner it is bound to; the assignment operator of a read-write
\* accessor returns the value just written (for a delegating accessor, the
\* getter's result after the setter); set(v) and the assignment operator of
\* a write-only accessor return nothing.
C18_WriteReturns ==
    (last.op = "write" /\ last.status = "ok")
        => CASE last.form = "call" ->
                  /\ last.retKind = "owner"
                  /\ last.retOwner = last.ptrBefore
                  /\ last.retOwner \in Owners
             [] last.form = "set" -> last.retKind = "void"
             [] last.form = "assign" ->
                  IF ~ReadWrite(cls) THEN last.retKind = "void"
                  ELSE /\ last.retKind = "value"
                       /\ IF cls \in StoredClasses
                          THEN last.ret = last.arg /\ value[last.acc] = last.arg
                          ELSE last.ret = Getter(field, last.ptrBefore)

C18_Witness ==
    /\ cls = "Property"
    /\ last.op = "write" /\ last.form = "call" /\ last.arg = MaxValue
    /\ last.ptrBefore = "o2"
    /\ last.status = "ok"
    /\ last.retKind = "owner" /\ last.retOwner = "o2"
    /\ owner[last.acc] = "o2"


\* C19: a write to a stored accessor (set, assignment, call form, compound
\* assignment) changes nothing but that accessor's own value slot: every
\* owner pointer, every owner's data, and the other accessor's value stay
\* as they were, and no owner method is called.
C19_StoredWriteFrame ==
    [][(cls \in StoredClasses /\ last'.op \in {"write", "compound"})
        => (/\ owner' = owner
            /\ field' = field
            /\ \A b \in Accessors \ {last'.acc} : value'[b] = value[b]
            /\ alias' = alias /\ storage' = storage /\ box' = box
            /\ last'.calls = <<>>)]_vars

C19_Witness ==
    /\ cls = "Property"
    /\ last.op = "compound" /\ last.status = "ok"
    /\ owner[last.acc] = "o1"
    /\ value[last.acc] = MaxValue
    /\ field["o1"] # MaxValue
    /\ \E b \in Accessors \ {last.acc} : value[b] # MaxValue /\ owner[b] = "o2"


----------------------------------------------------------------------------
\* The Assignment carrier.

\* C20 as stated, for a source variable that is still in scope: to(target)
\* deposits the value the carrier was constructed from, whatever has been
\* assigned to the source variable since, and returns the target.
C20_CarrierCapturesValue ==
    (cls = "Assignment" /\ last.op = "to" /\ box.alive)
        => /\ last.status = "ok"
           /\ box.target = box.madeWith
           /\ last.retKind = "value" /\ last.ret = box.target


----------------------------------------------------------------------------
\* Assertions.

\* C21: runtime_assert has exactly two outcomes.  With a true condition it
\* writes nothing, throws nothing and the next statement executes; with a
\* false condition it writes the formatted message, throws a runtime_error
\* carrying it, and the next statement does not execute.
C21_AssertTwoOutcomes ==
    (run.fn = "runtime_assert")
        => IF run.condition
           THEN run.status = "ok" /\ run.output = <<>> /\ run.what = <<>> /\ run.after
           ELSE /\ run.status = "assert"
                /\ Len(run.output) = 1
                /\ run.output[1].message = <<"Assertion failed: ", run.message>>
                /\ run.what = <<"Assertion failed: ", run.message>>
                /\ ~run.after

C21_Witness ==
    /\ run.fn = "runtime_assert" /\ ~run.condition /\ run.message = "m2"
    /\ run.status = "assert" /\ ~run.after


----------------------------------------------------------------------------
\* Mathematics.

\* C22: for range_begin <= range_end, project returns the one r with
\* range_begin <= r <= range_end that is congruent to value modulo
\* range_end - range_begin + 1, for values below range_begin as well;
\* project(x, 0, 3) maps -4, 0, 4 to 0 and -1, 3, 7 to 3.
C22_ProjectWraps ==
    (run.fn = "project")
        => LET range_size == run.range_end - run.range_begin + 1 IN
           /\ run.range_begin <= run.ret /\ run.ret <= run.range_end
           /\ (run.ret - run.value) % range_size = 0
           /\ (run.range_begin = 0 /\ run.range_end = 3 /\ run.value \in {0 - 4, 0, 4})
                => run.ret = 0
           /\ (run.range_begin = 0 /\ run.range_end = 3 /\ run.value \in {0 - 1, 3, 7})
                => run.ret = 3

C22_Witness ==
    /\ run.fn = "project"
    /\ run.range_begin = 0 /\ run.range_end = 3 /\ run.value = 0 - 1
    /\ run.ret = 3


----------------------------------------------------------------------------
\* Strings.

\* C23, where the behaviour is defined: for non-null C strings ends_with
\* returns true exactly when match is a suffix of scanned, the empty match
\* and a match that also occurs earlier in scanned included; with a null
\* argument it returns false.
C23_EndsWithIsSuffix ==
    (run.fn = "ends_with" /\ run.defined)
        => IF run.match.null \/ run.scanned.null THEN run.ret = FALSE
           ELSE LET m == Len(run.match.chars)
                    n == Len(run.scanned.chars)
                IN run.ret = (n >= m /\ SubSeq(run.scanned.chars, n - m + 1, n)
                                            = run.match.chars)


----------------------------------------------------------------------------
\* Optional values.

\* C24: for Optional and Potential, an optional constructed from a value
\* exists and one constructed by default or from nullptr does not; value()
\* returns the held value when it exists and fails with an assertion failure
\* otherwise; value_or(other) returns the held value when it exists and
\* other otherwise; of then(f) and otherwise(g) exactly one runs its
\* operation.
C24_OptionalAccess ==
    (run.fn \in OptionalClasses)
        => /\ run.exists = (run.made = "value")
           /\ run.op = "value"
                => IF run.exists THEN run.status = "ok" /\ run.ret = run.held
                   ELSE run.status = "assert" /\ run.ret = NoValue
           /\ run.op = "value_or"
                => /\ run.status = "ok"
                   /\ run.ret = IF run.exists THEN run.held ELSE run.other
           /\ run.op = "then_otherwise"
                => /\ Len(run.ran) = 1
                   /\ run.ran[1] = IF run.exists
                                   THEN [operation |-> "then", arg |-> run.held]
                                   ELSE [operation |-> "otherwise", arg |-> NoValue]

C24_Witness ==
    /\ run.fn = "Potential" /\ run.made = "nullptr" /\ run.op = "value"
    /\ ~run.exists /\ run.status = "assert"


----------------------------------------------------------------------------
\* Compound mutation on delegating accessors.

\* C25: a compound mutation on a bound delegating read-write accessor calls
\* the owner's getter, then the owner's setter exactly once with
\* (getter result <op> value), then the getter again, and returns that last
\* result; no setter call precedes the first getter call.
C25_CompoundIsGetSetGet ==
    [][(/\ last'.op = "compound"
        /\ cls \in {"ByValueProperty", "ByReferenceProperty"}
        /\ owner[last'.acc] # NULL)
        => LET p == owner[last'.acc] IN
           /\ last'.status = "ok"
           /\ last'.calls = <<Call("get", p, NoValue),
                              Call("set", p, Apply(last'.form, Getter(field, p), last'.arg)),
                              Call("get", p, NoValue)>>
           /\ last'.retKind = "value"
           /\ last'.ret = Getter(field', p)]_vars

C25_Witness ==
    /\ cls = "ByReferenceProperty"
    /\ last.op = "compound" /\ last.form = "+" /\ last.arg = 1
    /\ last.status = "ok"
    /\ Len(last.calls) = 3
    /\ last.calls[2] = Call("set", "o2", MaxValue)
    /\ last.ret = MaxValue /\ field["o2"] = MaxValue


----------------------------------------------------------------------------
\* Parsing.

----------------------------------------------------------------------------
\* Copying accessors.

\* C27 as stated: a copy- or move-constructed accessor starts unbound
\* whatever the source's binding, and copy- or move-assigning b to a leaves
\* a's owner pointer as it was; for a stored accessor nothing changes but
\* a's value, which becomes b's, and for a delegating accessor nothing
\* changes at all.
C27_CopyChangesOnlyTargetValue ==
    [][(last'.op \in {"copy", "copy_construct"})
        => LET a == last'.acc
               b == last'.src
           IN /\ owner'[a] = IF last'.op = "copy" THEN owner[a] ELSE NULL
              /\ owner'[b] = owner[b]
              /\ value'[a] = IF cls \in StoredClasses THEN value[b] ELSE value[a]
              /\ value'[b] = value[b]
              /\ field' = field]_vars

\* C27 amended: as above for the owner pointers and a's value, but a move
\* out of a SharedProperty leaves the source's shared pointer null; every
\* other source value is unchanged.
C27_CopyNeverTransfersOwner ==
    [][(last'.op \in {"copy", "copy_construct"})
        => LET a == last'.acc
               b == last'.src
           IN /\ owner'[a] = IF last'.op = "copy" THEN owner[a] ELSE NULL
              /\ owner'[b] = owner[b]
              /\ value'[a] = IF cls \in StoredClasses THEN value[b] ELSE value[a]
              /\ value'[b] = IF cls = "SharedProperty" /\ last'.form = "move"
                             THEN NullPointer ELSE value[b]
              /\ field' = field]_vars

C27_Witness ==
    /\ cls = "Property"
    /\ last.op = "copy_construct" /\ last.form = "copy"
    /\ owner[last.src] = "o2" /\ owner[last.acc] = NULL
    /\ value[last.acc] = MaxValue /\ value[last.src] = MaxValue


----------------------------------------------------------------------------
\* Failed calls.

\* C28: the chaining write form on an unbound stored accessor stores the
\* value before the unbound-owner assertion fails: the call ends with an
\* assertion failure, the accessor's slot holds the new value, and get()
\* (where the class has one) returns it.
C28_FailedChainingStillStores ==
    (last.op = "write" /\ last.form = "call" /\ cls \in StoredClasses
            /\ last.ptrBefore = NULL)
        => LET a == last.acc
               g == StoredGet(owner[a], value[a], field)
           IN /\ last.status = "assert"
              /\ value[a] = last.arg
              /\ Readable(cls) => (g.status = "ok" /\ g.ret = last.arg)

C28_Witness ==
    /\ cls = "Property"
    /\ last.op = "write" /\ last.form = "call" /\ last.arg = MaxValue
    /\ last.ptrBefore = NULL /\ last.status = "assert"
    /\ value[last.acc] = MaxValue
    /\ \E b \in Accessors \ {last.acc} : value[b] = 0


----------------------------------------------------------------------------
\* Read-only accessors.

\* C29: on a read-only stored accessor and a read-only by-reference
\* accessor no public operation of the accessor (get, call form,
\* conversion and what they return, accessor-to-accessor assignment)
\* changes the value a later get() returns: the value slots and the
\* owners' data stay as they were.
C29_ReadonlyGivesNoWrite ==
    [][(/\ cls \in {"ReadonlyProperty", "ReadonlyByReferenceProperty"}
        /\ last'.op \in {"read", "ref_write", "copy"}
        /\ last'.status = "ok")
        => (value' = value /\ field' = field)]_vars


----------------------------------------------------------------------------
\* Recovery from an unbound access.

====
